---------------------------- MODULE Spec2Model ----------------------------
(***************************************************************************)
(* Model of aligned_atomic.hpp: the compile-time padding computation       *)
(* (namespace padding_impl), the over-aligned operator new / operator      *)
(* delete pair of aligned_atomic<T, Align>, and the atomic access surface  *)
(* the class inherits from std::atomic<T>.                                 *)
(*                                                                         *)
(* Memory is a flat arena of pointer-sized words.  The generic allocator   *)
(* (std::malloc / std::free) hands out disjoint byte ranges of the arena.  *)
(* size_t arithmetic is modular, SIZE_BITS wide.                           *)
(***************************************************************************)
EXTENDS Integers, FiniteSets, Sequences, TLC

VARIABLES
    blocks,   \* outstanding blocks of the generic allocator: [base, size]
    mem,      \* arena contents, one entry per pointer-sized word
    live,     \* pointers returned by operator new and not yet deleted
    fault,    \* "none", or the undefined behaviour the process has run into
    last,     \* the operation just executed, with its inputs and effects
    tparam,   \* (padding spec) template arguments: sizeof(std::atomic<T>), Align
    layout,   \* (padding spec) the instantiated layout, or NoLayout
    shared,   \* (fetch_add spec) value of the shared aligned_atomic instance
    done,     \* (fetch_add spec) increments completed by each thread
    got       \* (fetch_add spec) value returned by each thread's last fetch_add

vars == <<blocks, mem, live, fault, last, tparam, layout, shared, done, got>>
heapVars == <<blocks, mem, live, fault, last>>
padVars == <<tparam, layout>>
thrVars == <<shared, done, got>>

---------------------------------------------------------------------------
(* Bounds of the model *)

\* width of size_t / uintptr_t in bits
SIZE_BITS == 8
\* number of pointer-sized words in the arena the generic allocator manages
HeapWords == 9
\* most pointers returned by operator new that are outstanding at once
MaxLive == 2
\* largest sizeof(std::atomic<T>) and Align tried by the padding computation
MaxSize == 20
MaxAlign == 17
\* the concurrent scenario: NThreads threads, MIncr increments each
NThreads == 3
MIncr == 3

---------------------------------------------------------------------------
(* Platform constants and machine arithmetic *)

NULL == 0
sizeof_voidp == 8
alignof_voidp == 8

SIZE_MAX == 2^SIZE_BITS - 1

\* size_t arithmetic: results are reduced modulo 2^SIZE_BITS
wrap(x) == (x + 4 * (SIZE_MAX + 1)) % (SIZE_MAX + 1)

Junk == 0 - 1                  \* an indeterminate word
NoVal == 0 - 2                 \* no value: a void result, an absent argument

Arena == {sizeof_voidp * k : k \in 1..HeapWords}
ArenaEnd == sizeof_voidp * (HeapWords + 1)

---------------------------------------------------------------------------
(* namespace padding_impl *)

\* constexpr size_t mod(size_t a, size_t b)
mod(a, b) == wrap(a - wrap(b * (a \div b)))

\* free_space without the subtraction from Align
free_space_remainder(s, Align) == mod(s, Align)

\* padding_bytes<T, Align>::free_space, s = sizeof(std::atomic<T>)
free_space(s, Align) == wrap(Align - mod(s, Align))

\* padding_bytes<T, Align>::required: the length of char padding_[]
required(s, Align) ==
    IF free_space(s, Align) > 1 THEN free_space(s, Align) ELSE 1

\* padding that always inherits from padding_bytes
padding_always(s, Align) == required(s, Align)

\* bytes contributed by the base class padding<T, Align>: padding_bytes when
\* mod(sizeof(std::atomic<T>), Align) != 0, the empty_struct (no bytes, empty
\* base) otherwise
padding(s, Align) ==
    IF mod(s, Align) # 0 THEN required(s, Align) ELSE 0

\* sizeof(aligned_atomic<T, Align>): the std::atomic<T> base, then the
\* padding base, the total rounded up to a multiple of alignas(Align)
sizeof_aligned_atomic(s, Align) ==
    LET body == wrap(s + padding(s, Align))
    IN  wrap(((body + Align - 1) \div Align) * Align)

---------------------------------------------------------------------------
(* The generic allocator *)

Extent(n) == IF n = 0 THEN 1 ELSE n

Disjoint(p, n, b) ==
    \/ p + Extent(n) <= b.base
    \/ b.base + Extent(b.size) <= p

\* std::malloc(n): the null pointer, or the base of a range of n bytes of the
\* arena that overlaps no outstanding block (malloc(0) may return either a
\* null pointer or a unique pointer)
malloc(n, blks) ==
    {NULL} \cup {p \in Arena : /\ p + Extent(n) <= ArenaEnd
                              /\ \A b \in blks : Disjoint(p, n, b)}

\* the word [x, x + sizeof(void* )) lies inside one of the blocks blks
InBlock(x, blks) ==
    \E b \in blks : b.base <= x /\ x + sizeof_voidp <= b.base + b.size

\* the words of the arena that overlap the byte range [q, q + n)
WordsOf(q, n) == {w \in Arena : w + sizeof_voidp > q /\ w < q + n}

Load(m, x) == IF x \in DOMAIN m THEN m[x] ELSE Junk

---------------------------------------------------------------------------
(* std::align(alignment, size, ptr, space) *)

AlignUp(x, a) == wrap(((x + a - 1) \div a) * a)

std_align(alignment, size, ptr, space) ==
    IF size > space
    THEN [ok |-> FALSE, ptr |-> ptr, space |-> space]
    ELSE LET aligned == AlignUp(ptr, alignment)
             diff == wrap(aligned - ptr)
         IN  IF diff > space - size
             THEN [ok |-> FALSE, ptr |-> ptr, space |-> space]
             ELSE [ok |-> TRUE, ptr |-> aligned, space |-> space - diff]

---------------------------------------------------------------------------
(* aligned_atomic<T, Align>::operator new / operator delete *)

\* constexpr size_t alignment
alignment(Align) == IF Align >= alignof_voidp THEN Align ELSE alignof_voidp

\* a request that leaves no room for the alignment adjustment
request_size_no_slack(Align, count) == wrap(count + sizeof_voidp)

\* size_t space = count + alignment + sizeof(void* ): the argument of malloc
request_size(Align, count) ==
    wrap(wrap(count + alignment(Align)) + sizeof_voidp)

\* operator new without the test of malloc's result
operator_new_unchecked(Align, count, p) ==
    LET p_algn0 == wrap(p + sizeof_voidp)
        space == wrap(request_size(Align, count) - sizeof_voidp)
        p_algn == std_align(alignment(Align), count, p_algn0, space).ptr
    IN  [ret |-> p_algn,
         stores |-> {<<wrap(p_algn - sizeof_voidp), p>>}]

\* operator new after p = std::malloc(space): the pointer returned and the
\* word stores performed, as <<address, value>>
operator_new(Align, count, p) ==
    IF p = NULL
    THEN [ret |-> NULL, stores |-> {}]
    ELSE LET p_algn0 == wrap(p + sizeof_voidp)
             space == wrap(request_size(Align, count) - sizeof_voidp)
             p_algn == std_align(alignment(Align), count, p_algn0, space).ptr
         IN  [ret |-> p_algn,
              stores |-> {<<wrap(p_algn - sizeof_voidp), p>>}]

\* operator delete without the test of ptr
operator_delete_unchecked(ptr, m) ==
    [reads |-> {wrap(ptr - sizeof_voidp)},
     frees |-> {Load(m, wrap(ptr - sizeof_voidp))}]

\* operator delete(ptr): the words read and the pointers passed to std::free
operator_delete(ptr, m) ==
    IF ptr # NULL
    THEN [reads |-> {wrap(ptr - sizeof_voidp)},
          frees |-> {Load(m, wrap(ptr - sizeof_voidp))}]
    ELSE [reads |-> {}, frees |-> {}]

---------------------------------------------------------------------------
(* std::atomic<T> operations, as inherited; T is a size_t-wide integer *)

atomic_store(old, x) == [value |-> x, ret |-> NoVal]
atomic_fetch_add(old, arg) == [value |-> wrap(old + arg), ret |-> old]

\* an operator= that returns the previous value, as exchange does
operator_assign_exchange(old, x) == [value |-> x, ret |-> old]

\* T operator=(T x) noexcept { return std::atomic<T>::operator=(x); }
operator_assign(old, x) == [value |-> atomic_store(old, x).value, ret |-> x]

---------------------------------------------------------------------------
(* The heap specification: new-expressions, direct calls of operator new,   *)
(* delete-expressions and atomic operations on live instances               *)

\* the aligned_atomic<T, Align> instantiations used, as
\* <<sizeof(std::atomic<T>), Align>>
Instantiations == {<<1, 1>>, <<8, 16>>, <<24, 16>>}

\* byte counts passed to operator new when it is called directly
RawCounts == {16, SIZE_MAX - 23, SIZE_MAX - 7}

\* values of T stored by constructors, store and operator=
Vals == {1, 2}

\* the record of an executed operation: the result of its malloc call, the
\* object or pointer it was applied to, its argument, the value it returned,
\* how many words of memory it read and how many times it called std::free
Op(op, p, ptr, arg, ret, reads, frees) ==
    [op |-> op, p |-> p, ptr |-> ptr, arg |-> arg, ret |-> ret,
     reads |-> reads, frees |-> frees]

\* a pointer handed out by operator new: the malloc block it lies in, the
\* template argument Align, the byte count requested and, for an instance
\* built by a new-expression, sizeof(std::atomic<T>) (0: raw storage)
Handle(ptr, base, Align, count, s) ==
    [ptr |-> ptr, base |-> base, Align |-> Align, count |-> count, size |-> s]

\* a store to a word outside the block it was meant for is undefined behaviour:
\* it lands in whatever occupies the arena there (fault "oob": from then on
\* the model follows only the deletion of the outstanding pointers), or the
\* process is killed (fault "crashed")
StoreOutcomes(x, blks) ==
    IF InBlock(x, blks)
    THEN {"lands"}
    ELSE {"crash"} \cup (IF x \in Arena THEN {"lands"} ELSE {})

\* memory that belongs to no outstanding block and is no back-pointer slot of
\* a pointer still to be deleted is indeterminate
Settle(m, blks, lv) ==
    [w \in Arena |->
        IF \/ \E b \in blks : w \in WordsOf(b.base, Extent(b.size))
           \/ \E l \in lv : w = l.ptr - sizeof_voidp
        THEN m[w]
        ELSE Junk]

\* operator new(count) of aligned_atomic<T, Align>, followed (s > 0) by the
\* constructor aligned_atomic(T desired) of a new-expression
DoNew(op, Align, count, s, desired) ==
    /\ fault = "none"
    /\ Cardinality(live) < MaxLive
    /\ \E p \in malloc(request_size(Align, count), blocks) :
         LET r == operator_new(Align, count, p)
             blks == IF p = NULL
                     THEN blocks
                     ELSE blocks \cup
                          {[base |-> p, size |-> request_size(Align, count)]}
             own == blks \ blocks
             lv == IF r.ret = NULL
                   THEN live
                   ELSE live \cup {Handle(r.ret, p, Align, count, s)}
         IN  /\ blocks' = blks
             /\ IF r.stores = {}
                THEN /\ UNCHANGED <<mem, fault>>
                     /\ live' = lv
                     /\ last' = Op(op, p, NULL, desired, r.ret, 0, 0)
                ELSE \E st \in r.stores :
                     \E outcome \in StoreOutcomes(st[1], own) :
                       IF outcome = "lands"
                       THEN /\ live' = lv
                            /\ mem' = Settle(
                                        [w \in Arena |->
                                          IF r.ret # NULL /\ w \in WordsOf(r.ret, s)
                                          THEN desired
                                          ELSE IF w = st[1] THEN st[2]
                                          ELSE mem[w]], blks, lv)
                            /\ fault' = IF InBlock(st[1], own)
                                        THEN fault ELSE "oob"
                            /\ last' = Op(op, p, NULL, desired, r.ret, 0, 0)
                       ELSE /\ fault' = "crashed"
                            /\ UNCHANGED <<mem, live>>
                            /\ last' = Op(op, p, NULL, desired, NoVal, 0, 0)

\* new aligned_atomic<T, Align>(desired)
NewExpr(ty, desired) ==
    /\ DoNew("new", ty[2], sizeof_aligned_atomic(ty[1], ty[2]), ty[1], desired)
    /\ UNCHANGED <<padVars, thrVars>>

\* aligned_atomic<T, Align>::operator new(count), called directly
OperatorNew(Align, count) ==
    /\ DoNew("operator new", Align, count, 0, NoVal)
    /\ UNCHANGED <<padVars, thrVars>>

\* std::free(x)
DoFree(x) ==
    IF x = NULL
    THEN UNCHANGED <<blocks, fault>>
    ELSE IF \E b \in blocks : b.base = x
    THEN /\ blocks' = {b \in blocks : b.base # x}
         /\ fault' = fault
    ELSE \* not a pointer the allocator has outstanding (a double free, or a
         \* free of something malloc never returned): undefined behaviour
         /\ fault' = "bad free"
         /\ UNCHANGED blocks

\* operator delete(ptr)
DoDelete(op, ptr) ==
    LET d == operator_delete(ptr, mem)
    IN  /\ fault \in {"none", "oob"}
        /\ IF d.frees = {}
           THEN UNCHANGED <<blocks, fault>>
           ELSE \E x \in d.frees : DoFree(x)
        /\ last' = Op(op, NULL, ptr, NoVal, NoVal, Cardinality(d.reads),
                      Cardinality(d.frees))

\* delete q, for a pointer q obtained from operator new and not yet deleted
Delete(l) ==
    /\ l \in live
    /\ DoDelete("delete", l.ptr)
    /\ live' = live \ {l}
    /\ mem' = Settle(mem, blocks', live')
    /\ UNCHANGED <<padVars, thrVars>>

\* delete on a null pointer
DeleteNull ==
    /\ DoDelete("delete null", NULL)
    /\ mem' = Settle(mem, blocks', live)
    /\ UNCHANGED <<live, padVars, thrVars>>

\* an atomic operation on the live instance l: the new value is written to
\* the words of its std::atomic<T> subobject
AtomicOp(op, l, arg, res) ==
    /\ fault = "none"
    /\ l \in live
    /\ l.size > 0
    /\ mem' = [w \in Arena |->
                IF w \in WordsOf(l.ptr, l.size) THEN res.value ELSE mem[w]]
    /\ last' = Op(op, NULL, l.ptr, arg, res.ret, 0, 0)
    /\ UNCHANGED <<blocks, live, fault, padVars, thrVars>>

Store(l, x) == AtomicOp("store", l, x, atomic_store(Load(mem, l.ptr), x))

Assign(l, x) == AtomicOp("assign", l, x, operator_assign(Load(mem, l.ptr), x))

NoOp == Op("init", NULL, NULL, NoVal, NoVal, 0, 0)

HeapInit ==
    /\ blocks = {}
    /\ mem = [w \in Arena |-> Junk]
    /\ live = {}
    /\ fault = "none"
    /\ last = NoOp

---------------------------------------------------------------------------
(* The padding specification: padding<T, Align> and the layout of           *)
(* aligned_atomic<T, Align>, instantiated for every size and alignment      *)

NoLayout == [padding |-> 0, size |-> 0, valid |-> FALSE]

PadIdle ==
    /\ tparam = <<1, 1>>
    /\ layout = NoLayout

\* the compiler instantiates aligned_atomic<T, Align>
Instantiate ==
    /\ ~layout.valid
    /\ layout' = [padding |-> padding(tparam[1], tparam[2]),
                  size |-> sizeof_aligned_atomic(tparam[1], tparam[2]),
                  valid |-> TRUE]
    /\ UNCHANGED <<tparam, heapVars, thrVars>>

---------------------------------------------------------------------------
(* The fetch_add specification: NThreads threads, each calling fetch_add(1) *)
(* MIncr times on one shared aligned_atomic<T> constructed with 0           *)

Threads == 1..NThreads

ThrIdle ==
    /\ shared = 0
    /\ done = [t \in Threads |-> 0]
    /\ got = [t \in Threads |-> NoVal]

\* a fetch_add that is not one atomic step: thread t first reads the value
\* and later writes the value it read plus one
FetchAddSplit(t) ==
    /\ done[t] < MIncr
    /\ IF got[t] = NoVal
       THEN /\ got' = [got EXCEPT ![t] = shared]
            /\ UNCHANGED <<shared, done>>
       ELSE /\ shared' = wrap(got[t] + 1)
            /\ done' = [done EXCEPT ![t] = @ + 1]
            /\ got' = [got EXCEPT ![t] = NoVal]
    /\ UNCHANGED <<heapVars, padVars>>

\* thread t calls fetch_add(1): std::atomic<T>::fetch_add, inherited
FetchAdd(t) ==
    /\ done[t] < MIncr
    /\ LET r == atomic_fetch_add(shared, 1)
       IN  /\ shared' = r.value
           /\ got' = [got EXCEPT ![t] = r.ret]
    /\ done' = [done EXCEPT ![t] = @ + 1]
    /\ UNCHANGED <<heapVars, padVars>>

---------------------------------------------------------------------------
(* Specifications *)

Init == HeapInit /\ PadIdle /\ ThrIdle

Next ==
    \/ \E ty \in Instantiations, v \in Vals : NewExpr(ty, v)
    \/ \E ty \in Instantiations, c \in RawCounts : OperatorNew(ty[2], c)
    \/ \E l \in live : Delete(l)
    \/ DeleteNull
    \/ \E l \in live, v \in Vals : Store(l, v)
    \/ \E l \in live, v \in Vals : Assign(l, v)

Spec == Init /\ [][Next]_vars

PadInit ==
    /\ HeapInit
    /\ ThrIdle
    /\ tparam \in (1..MaxSize) \X (1..MaxAlign)
    /\ layout = NoLayout

PadNext == Instantiate

SpecPad == PadInit /\ [][PadNext]_vars

FetchNext == \E t \in Threads : FetchAdd(t)

SpecFetch == Init /\ [][FetchNext]_vars

---------------------------------------------------------------------------
(* Properties *)

Bases(S) == {x.base : x \in S}

\* the request of handle l is computed without size_t overflow
NoOverflow(l) == l.count + alignment(l.Align) + sizeof_voidp <= SIZE_MAX

\* C1: every non-null pointer returned by operator new is a multiple of the
\* Align of its instantiation, for every byte count and every base address
\* malloc returns.
C1_ReturnedPointerAligned ==
    \A l \in live : l.ptr % l.Align = 0

\* C2: for every pointer returned by operator new and not yet deleted, the
\* word immediately before it holds the pointer malloc returned for its
\* block, whatever allocations, deallocations and atomic operations have
\* happened since.
C2_BackPointerIntact ==
    \A l \in live : Load(mem, l.ptr - sizeof_voidp) = l.base

\* C3: std::free is never given a pointer the allocator does not have
\* outstanding, and the outstanding blocks are exactly the blocks of the
\* pointers returned by operator new and not yet deleted (each deletion
\* released the block of its own allocation).
C3_DeallocationBalanced ==
    /\ fault # "bad free"
    /\ fault \in {"none", "oob"} => /\ Bases(blocks) = Bases(live)
                                    /\ Cardinality(blocks) = Cardinality(live)

\* C4: a call of operator new whose malloc returns null returns null, writes
\* no memory, leaves the outstanding blocks and the live pointers as they
\* were and does not end the process.
C4_AllocationFailure ==
    [][(last'.op \in {"new", "operator new"} /\ last'.p = NULL)
         => /\ last'.ret = NULL
            /\ mem' = mem
            /\ blocks' = blocks
            /\ live' = live
            /\ fault' = fault]_vars

C4_Witness ==
    /\ last.op = "new"
    /\ last.p = NULL
    /\ last.ret = NULL
    /\ blocks # {}

\* C5: operator delete on a null pointer reads no memory, calls std::free
\* zero times and leaves the outstanding blocks, the live instances and the
\* memory unchanged.
C5_DeleteNullNoOp ==
    [][last'.op = "delete null"
         => /\ last'.reads = 0
            /\ last'.frees = 0
            /\ blocks' = blocks
            /\ live' = live
            /\ mem' = mem
            /\ fault' = fault]_vars

C5_Witness ==
    /\ last.op = "delete null"
    /\ Cardinality(live) = 2
    /\ Cardinality(blocks) = 2

\* C6: the padding is 0 bytes when s mod A = 0 and A - (s mod A) bytes
\* otherwise; mod(s, A) is the mathematical remainder, and the clamp to one
\* byte never changes the number of padding bytes.
C6_PaddingSize ==
    layout.valid =>
        LET s == tparam[1]
            A == tparam[2]
        IN  /\ mod(s, A) = s % A
            /\ layout.padding = IF s % A = 0 THEN 0 ELSE A - (s % A)
            /\ s % A # 0 => required(s, A) = free_space(s, A)

\* a size larger than the alignment and one byte short of a boundary
C6_Witness ==
    /\ layout.valid
    /\ tparam[1] > tparam[2]
    /\ tparam[1] % tparam[2] = tparam[2] - 1
    /\ tparam[2] > 2
    /\ layout.padding = 1

\* C7: once every thread has completed its MIncr calls of fetch_add(1) on the
\* shared instance, which started at 0, its value is NThreads * MIncr.
C7_NoLostUpdate ==
    (\A t \in Threads : done[t] = MIncr) => shared = NThreads * MIncr

\* all threads are done, and the thread whose call came last was not the
\* one that made the call before it
C7_Witness ==
    /\ \A t \in Threads : done[t] = MIncr
    /\ \E t, u \in Threads : /\ t # u
                             /\ got[t] = NThreads * MIncr - 1
                             /\ got[u] = NThreads * MIncr - 2

\* C8: x = V on a live instance returns V, leaves load() returning V, and
\* changes the state exactly as store(V) does.
C8_AssignIsStore ==
    [][last'.op = "assign"
         => /\ last'.ret = last'.arg
            /\ Load(mem', last'.ptr) = last'.arg
            /\ \E l \in live :
                 /\ l.ptr = last'.ptr
                 /\ mem' = [w \in Arena |->
                             IF w \in WordsOf(l.ptr, l.size)
                             THEN atomic_store(Load(mem, l.ptr), last'.arg).value
                             ELSE mem[w]]
            /\ UNCHANGED <<blocks, live, fault>>]_vars

\* an assignment that changed the value of one of two live instances
C8_Witness ==
    /\ last.op = "assign"
    /\ last.ret = 2
    /\ Cardinality(live) = 2
    /\ \E l \in live : l.size > 0 /\ Load(mem, l.ptr) = 1

\* C9: sizeof(std::atomic<T>) plus the padding is a positive multiple of A,
\* and so is the distance between consecutive array elements.
C9_AdjacentInstancesApart ==
    layout.valid =>
        LET s == tparam[1]
            A == tparam[2]
        IN  /\ (s + layout.padding) % A = 0
            /\ s + layout.padding >= A
            /\ layout.size % A = 0
            /\ layout.size >= A

\* a size between one and two lines, padded to two lines
C9_Witness ==
    /\ layout.valid
    /\ tparam[1] % tparam[2] # 0
    /\ tparam[1] + layout.padding = 2 * tparam[2]
    /\ layout.size = 2 * tparam[2]

\* C10: when count + a + sizeof(void* ) does not overflow, with
\* a = max(Align, alignof(void* )), p the block malloc returned and q the
\* pointer operator new returned: q is the smallest multiple of a that is
\* >= p + sizeof(void* ), and the back-pointer slot [q - sizeof(void* ), q)
\* and the object [q, q + count) lie inside the block
\* [p, p + count + a + sizeof(void* )) and do not overlap.
C10_AdjustmentInsideBlock ==
    \A l \in live :
        (fault = "none" /\ NoOverflow(l)) =>
            LET a == alignment(l.Align)
                p == l.base
                q == l.ptr
                size == l.count + a + sizeof_voidp
            IN  /\ [base |-> p, size |-> size] \in blocks
                /\ q % a = 0
                /\ q >= p + sizeof_voidp
                /\ q - a < p + sizeof_voidp
                /\ p <= q - sizeof_voidp
                /\ q + l.count <= p + size
                /\ (q - sizeof_voidp) + sizeof_voidp <= q

\* the adjustment step moved the pointer past p + sizeof(void* )
C10_Witness ==
    \E l \in live :
        /\ fault = "none"
        /\ NoOverflow(l)
        /\ l.Align = 16
        /\ l.ptr = l.base + 2 * sizeof_voidp

===========================================================================
